---- MODULE Spec2Model ----
(***************************************************************************)
(* Model of the tween engine of @marwajs/dom (src/src/fx.ts): the FX       *)
(* registry, the frame loop of tweenElement, the transform composer of     *)
(* write and the public helpers fade / move / scale / rotate / to / stop.  *)
(*                                                                         *)
(* Numbers are exact rationals [n, d] (d > 0, lowest terms).  Time is an   *)
(* integer count of clock ticks, TicksPerMs ticks to the millisecond, so   *)
(* that durations below one millisecond and frames less than a millisecond *)
(* apart exist in the model.  A duration `ms` is carried in ticks.         *)
(*                                                                         *)
(* Each public helper is one atomic action (the page's script runs on one  *)
(* thread); a frame callback is one action, step.  The channels animated   *)
(* are opacity and the four transform channels; opacity stays within       *)
(* [0, 1], where the computed value readStyle reads is the value written.  *)
(* The composed transform string is kept as its four numbers.              *)
(*                                                                         *)
(* The module also models the storage helper (src/unnamed/part_001) and    *)
(* the fetch client net (src/src/index.ts), each in specifications of its  *)
(* own: StoreSpec for the store, ComposeSpec, PipeSpec and NetSpec for the *)
(* client.  CallSpec is the tween engine with the return of each helper    *)
(* call observed; ChainSpec drives tweenElement with a completion callback *)
(* that begins another tween.                                              *)
(***************************************************************************)
EXTENDS Integers, Sequences, FiniteSets, TLC

\* ---------------------------------------------------------------- bounds
MaxTweens == 2      \* tweens begun in one behaviour
MaxTime == 4        \* last clock tick
TicksPerMs == 2     \* clock resolution
MaxRequests == 2    \* requests made through the net client in one behaviour
MaxPipeRequests == 1   \* the same, where the interceptor pipeline is followed

\* ------------------------------------------------------------- rationals
Abs(i) == IF i < 0 THEN -i ELSE i

RECURSIVE GCD(_, _)
GCD(a, b) == IF b = 0 THEN a ELSE GCD(b, a % b)

Rat(n, d) == LET g == GCD(Abs(n), d) IN [n |-> n \div g, d |-> d \div g]
R(i) == [n |-> i, d |-> 1]
RAdd(p, q) == Rat(p.n * q.d + q.n * p.d, p.d * q.d)
RSub(p, q) == Rat(p.n * q.d - q.n * p.d, p.d * q.d)
RMul(p, q) == Rat(p.n * q.n, p.d * q.d)
RLt(p, q) == p.n * q.d < q.n * p.d
RLe(p, q) == p.n * q.d <= q.n * p.d
RMin(p, q) == IF RLe(p, q) THEN p ELSE q

\* ------------------------------------------------------------- constants
Els == {"a"}                 \* the animated targets
NoEl == "undefined"          \* d.first of an empty selection
NoState == 0                 \* FX.get(el) === undefined
NoRaf == 0                   \* st.raf not set
TransformKeys == {"x", "y", "scale", "rotate"}

\* the four built-in easings and one caller-supplied one, t => t / 2
ease_linear(t) == t
ease_in(t) == RMul(t, t)
ease_out(t) == RSub(R(1), RMul(RSub(R(1), t), RSub(R(1), t)))
ease_inout(t) ==
  IF RLt(t, Rat(1, 2))
  THEN RMul(R(2), RMul(t, t))
  ELSE LET u == RAdd(RMul(R(-2), t), R(2))
       IN RSub(R(1), RMul(RMul(u, u), Rat(1, 2)))
ease_custom(t) == RMul(t, Rat(1, 2))

easing(name, t) ==
  CASE name = "linear" -> ease_linear(t)
    [] name = "in" -> ease_in(t)
    [] name = "out" -> ease_out(t)
    [] name = "inout" -> ease_inout(t)
    [] name = "custom" -> ease_custom(t)

\* -------------------------------------------------------------- inputs
\* Calls the environment makes.  Durations are in ticks: with two ticks to the
\* millisecond 3 is 1.5 ms, 1 is half a millisecond and 0 a zero duration.
\* show is fade's optional flag.
Handles == [first : Els \cup {NoEl}]       \* a Dom set and its first element
FadeArgs == {<<3, "undefined", "inout">>, <<3, "false", "custom">>,
             <<1, "true", "linear">>}
MoveArgs == {<<1, 0, 3, "linear">>}
ScaleArgs == {<<2, 3, "inout">>}
RotateArgs == {<<3, 0, "out">>}
ToArgs == {<< << <<"scale", 2>>, <<"x", 1>> >>, 3, "in" >>}
CallFadeArgs == {<<3, "undefined", "inout">>}    \* the fade of CallSpec

\* --------------------------------------------------------------- state
VARIABLES
  clock,      \* performance.now(), in ticks
  FX,         \* the WeakMap: element -> id of its FXState, or NoState
  tweens,     \* every FXState created, with the variables its step closes over
  rafQueue,   \* callbacks requested from the frame scheduler and not yet run
  nextRaf,    \* next handle requestAnimationFrame returns
  style,      \* el.style / computed style of each element
  hist,       \* per tween: what its frames computed and wrote (observation only)
  lastCall,   \* the public helper call that just returned (observation only)
  storage,    \* window.localStorage: key -> text, for the keys that have an item
  put,        \* per storage key: the value last given to set (observation only)
  got,        \* what the last get / has / all returned, until the next change
  reqs,       \* every request made through the net client, with where its run is
  _pending,   \* the controllers (by request) in the client's pending set
  timers,     \* the requests whose timeout timer is armed
  _timeout,   \* the client's default timeout, in ms
  _use,       \* the registered interceptors, in registration order
  _after,
  _trap

vars == <<clock, FX, tweens, rafQueue, nextRaf, style, hist>>
storeVars == <<storage, put, got>>
netVars == <<reqs, _pending, timers, _timeout, _use, _after, _trap>>

\* what the tween engine does not touch
beyondFx == <<storeVars, netVars>>
outside == <<lastCall, beyondFx>>

Max(a, b) == IF a >= b THEN a ELSE b

now == clock

\* Object.keys(to) and to[k] of a Tweenable given as a sequence of <<key, value>>
Keys(to) == [i \in 1..Len(to) |-> to[i][1]]
KeySet(to) == {to[i][1] : i \in 1..Len(to)}
ValueOf(to, k) == R(to[CHOOSE i \in 1..Len(to) : to[i][1] = k][2])

Identity == [x |-> R(0), y |-> R(0), scale |-> R(1), rotate |-> R(0)]

readStyle(sty, k) ==
  CASE k = "opacity" -> sty.opacity
    [] k = "x" -> R(0)
    [] k = "y" -> R(0)
    [] k = "scale" -> R(1)
    [] k = "rotate" -> R(0)

\* f.c ?? st?.from?.c ?? dflt, with st = FX.get(el)
composed(tw, id, c, dflt) ==
  IF id = NoState THEN dflt
  ELSE IF c \in DOMAIN tw[id].to THEN tw[id].to[c]
  ELSE IF c \in DOMAIN tw[id].from THEN tw[id].from[c]
  ELSE dflt

\* write(el, k, v); id is FX.get(el), sty the element's style
write(sty, tw, id, k, v) ==
  IF k = "opacity" THEN [sty EXCEPT !.opacity = v]
  ELSE [sty EXCEPT !.transform =
          [x |-> IF k = "x" THEN v ELSE composed(tw, id, "x", R(0)),
           y |-> IF k = "y" THEN v ELSE composed(tw, id, "y", R(0)),
           scale |-> IF k = "scale" THEN v ELSE composed(tw, id, "scale", R(1)),
           rotate |-> IF k = "rotate" THEN v ELSE composed(tw, id, "rotate", R(0))]]

\* the frame scheduler: a request is [h: its handle, id: the tween whose step
\* closure it will call, at: the tick it was made on]
requestAnimationFrame_lost(q, h, id, at) == q
requestAnimationFrame(q, h, id, at) == q \cup {[h |-> h, id |-> id, at |-> at]}
cancelAnimationFrame(q, h) == {c \in q : c.h # h}

\* the WeakMap FX
FXget(reg, el) == reg[el]
FXset(reg, el, id) == [reg EXCEPT ![el] = id]
FXdelete_keep(reg, el) == reg
FXdelete(reg, el) == [reg EXCEPT ![el] = NoState]

\* cancel that only forgets the registry entry: the old loop is left alive
cancel_deleteOnly(S, el) ==
  IF FXget(S.FX, el) = NoState THEN S
  ELSE [S EXCEPT !.FX = FXdelete(S.FX, el)]

\* cancel that does nothing, so that a new state merely overwrites the old one
cancel_none(S, el) == S

\* cancel without its guard: st.stop = true on an undefined st is a TypeError
cancel_noGuard(S, el) ==
  IF FXget(S.FX, el) = NoState THEN [S EXCEPT !.threw = TRUE]
  ELSE LET id == FXget(S.FX, el)
           st == S.tweens[id]
       IN [S EXCEPT !.FX = FXdelete(S.FX, el),
                    !.tweens = [S.tweens EXCEPT ![id].stop = TRUE],
                    !.rafQueue = IF st.raf # NoRaf
                                 THEN cancelAnimationFrame(S.rafQueue, st.raf)
                                 ELSE S.rafQueue]

\* cancel(el) on the registry, the states and the scheduler queue; threw tells
\* whether the call raised an error
cancel(S, el) ==
  IF FXget(S.FX, el) = NoState THEN S
  ELSE LET id == FXget(S.FX, el)
           st == S.tweens[id]
       IN [S EXCEPT !.FX = FXdelete(S.FX, el),
                    !.tweens = [S.tweens EXCEPT ![id].stop = TRUE],
                    !.rafQueue = IF st.raf # NoRaf
                                 THEN cancelAnimationFrame(S.rafQueue, st.raf)
                                 ELSE S.rafQueue]

Current ==
  [FX |-> FX, tweens |-> tweens, rafQueue |-> rafQueue, threw |-> FALSE,
   nextRaf |-> nextRaf, hist |-> hist]

\* a + (b - a) * e
interpolate(a, b, e) == RAdd(a, RMul(RSub(b, a), e))

\* progress without the Math.min
progress_noClamp(elapsed, ms) == Rat(elapsed, Max(TicksPerMs, ms))

\* t = Math.min(1, (now() - start) / Math.max(1, ms))
progress(elapsed, ms) == RMin(R(1), Rat(elapsed, Max(TicksPerMs, ms)))

\* the for loop of step: one write per key, in key order
RECURSIVE writeAll(_, _, _, _, _, _)
writeAll(sty, tw, id, st, e, i) ==
  IF i > Len(st.keys) THEN sty
  ELSE LET k == st.keys[i]
       IN writeAll(write(sty, tw, id, k, interpolate(st.from[k], st.to[k], e)),
                   tw, id, st, e, i + 1)

\* a completion callback of fade that leaves will-change as it is
onDone_keepHint(kind, sty) ==
  IF kind = "fadeOut" THEN [sty EXCEPT !.display = "none"] ELSE sty

\* what the completion callback does to el.style: nothing, or what the arrow
\* function fxFade passes does
onDone(kind, sty) ==
  IF kind \in {"none", "chain"} THEN sty
  ELSE [sty EXCEPT !.willChange = "",
                   !.display = IF kind = "fadeOut" THEN "none" ELSE @]

\* observation: every tween still running on el is cancelled by this call
markCancelled(h, tw, el) ==
  [i \in DOMAIN h |->
     IF tw[i].el = el /\ h[i].status = "running"
     THEN [h[i] EXCEPT !.status = "cancelled"] ELSE h[i]]

\* lastElapsed < 0: no frame of the tween has run yet
NewHist(el) ==
  [status |-> "running", doneCalls |-> 0, lastElapsed |-> -1,
   displayAtCall |-> style[el].display,
   lastT |-> R(0), lastE |-> R(0), wrote |-> << >>,
   lateWrite |-> FALSE, lateDone |-> FALSE]

CanBegin(ms) ==
  /\ Len(tweens) < MaxTweens
  /\ clock + Max(TicksPerMs, ms) <= MaxTime

\* the body of tweenElement(el, to, ms, easing, onDone) run on S, the engine's
\* state at the call; sty is el.style at the call
begin(S, el, to, ms, ease, done, sty) ==
  LET C == cancel(S, el)
      id == Len(S.tweens) + 1
      st == [el |-> el, keys |-> Keys(to),
             from |-> [k \in KeySet(to) |-> readStyle(sty, k)],
             to |-> [k \in KeySet(to) |-> ValueOf(to, k)],
             ms |-> ms, easing |-> ease, onDone |-> done,
             start |-> now, stop |-> FALSE, raf |-> S.nextRaf]
  IN [C EXCEPT !.FX = FXset(C.FX, el, id),
               !.tweens = Append(C.tweens, st),
               !.rafQueue = requestAnimationFrame(C.rafQueue, S.nextRaf, id, now),
               !.nextRaf = S.nextRaf + 1,
               !.hist = Append(markCancelled(S.hist, S.tweens, el), NewHist(el))]

\* tweenElement(el, to, ms, easing, onDone), called from a helper
tweenElement(el, to, ms, ease, done, sty) ==
  LET S == begin(Current, el, to, ms, ease, done, sty)
  IN /\ FX' = S.FX
     /\ tweens' = S.tweens
     /\ rafQueue' = S.rafQueue
     /\ nextRaf' = S.nextRaf
     /\ hist' = S.hist
     /\ UNCHANGED clock

\* the tween a chaining completion callback begins on the element: <<to, ms, easing>>
ChainedArgs == << << <<"rotate", 1>> >>, 1, "linear" >>

\* step that calls the completion callback before it removes the entry
finish_callbackFirst(S, st, sty) ==
  LET B == IF st.onDone = "chain"
           THEN begin(S, st.el, ChainedArgs[1], ChainedArgs[2], ChainedArgs[3],
                      "none", sty)
           ELSE S
  IN [B EXCEPT !.FX = FXdelete(B.FX, st.el)]

\* FX.delete(el); onDone && onDone(): the end of the frame on which t reached
\* 1.  A callback of kind "chain" is one that begins a tween on the element.
finish(S, st, sty) ==
  LET D == [S EXCEPT !.FX = FXdelete(S.FX, st.el)]
  IN IF st.onDone = "chain"
     THEN begin(D, st.el, ChainedArgs[1], ChainedArgs[2], ChainedArgs[3], "none", sty)
     ELSE D

\* an element starts visible, or hidden by display: none; it has no inline
\* transform (the identity)
InitialStyles ==
  {[opacity |-> R(1), display |-> "", willChange |-> "", transform |-> Identity],
   [opacity |-> R(1), display |-> "none", willChange |-> "", transform |-> Identity]}

DefaultTimeout == 15000     \* init.timeout ?? 15000

\* no helper call has just returned
NoCall == [op |-> "none", d |-> [first |-> NoEl], ret |-> [first |-> NoEl],
           idle |-> FALSE, threw |-> FALSE]

Init ==
  /\ lastCall = NoCall
  /\ storage = << >>
  /\ put = << >>
  /\ got = << >>
  /\ reqs = << >>
  /\ _pending = {}
  /\ timers = {}
  /\ _timeout = DefaultTimeout
  /\ _use = << >>
  /\ _after = << >>
  /\ _trap = << >>
  /\ clock = 0
  /\ FX = [el \in Els |-> NoState]
  /\ tweens = << >>
  /\ rafQueue = {}
  /\ nextRaf = 1
  /\ style \in [Els -> InitialStyles]
  /\ hist = << >>

\* ------------------------------------------------------ public helpers
\* a helper that falls back to the only element when the selection is empty
first_fallback(d) == IF d.first = NoEl THEN CHOOSE el \in Els : TRUE ELSE d.first

\* const el = d.first: the first element of the selection, or undefined
first(d) == d.first

fxTo(d, to, ms, ease) ==
  IF first(d) = NoEl THEN UNCHANGED vars
  ELSE /\ CanBegin(ms)
       /\ tweenElement(first(d), to, ms, ease, "none", style[first(d)])
       /\ UNCHANGED style

\* fxFade that leaves a hidden element hidden
fadePrepare_noRestore(sty, target) == [sty EXCEPT !.willChange = "opacity"]

\* what fxFade sets on el.style before it begins the tween
fadePrepare(sty, target) ==
  [sty EXCEPT !.willChange = "opacity",
              !.display = IF target /\ @ = "none" THEN "" ELSE @]

fxFade(d, ms, show, ease) ==
  IF first(d) = NoEl THEN UNCHANGED vars
  ELSE LET el == first(d)
           target == IF show = "undefined"
                     THEN RLt(style[el].opacity, Rat(1, 2))
                     ELSE show = "true"
           sty == fadePrepare(style[el], target)
       IN /\ CanBegin(ms)
          /\ style' = [style EXCEPT ![el] = sty]
          /\ tweenElement(el, << <<"opacity", IF target THEN 1 ELSE 0>> >>, ms, ease,
                          IF target THEN "fadeIn" ELSE "fadeOut", sty)

fxMove(d, x, y, ms, ease) ==
  IF first(d) = NoEl THEN UNCHANGED vars
  ELSE /\ CanBegin(ms)
       /\ tweenElement(first(d), << <<"x", x>>, <<"y", y>> >>, ms, ease, "none",
                       style[first(d)])
       /\ UNCHANGED style

fxScale(d, s, ms, ease) ==
  IF first(d) = NoEl THEN UNCHANGED vars
  ELSE /\ CanBegin(ms)
       /\ tweenElement(first(d), << <<"scale", s>> >>, ms, ease, "none", style[first(d)])
       /\ UNCHANGED style

fxRotate(d, deg, ms, ease) ==
  IF first(d) = NoEl THEN UNCHANGED vars
  ELSE /\ CanBegin(ms)
       /\ tweenElement(first(d), << <<"rotate", deg>> >>, ms, ease, "none",
                       style[first(d)])
       /\ UNCHANGED style

fxStop(d) ==
  IF first(d) = NoEl THEN UNCHANGED vars
  ELSE LET S == cancel(Current, first(d))
       IN /\ FX' = S.FX
          /\ tweens' = S.tweens
          /\ rafQueue' = S.rafQueue
          /\ hist' = markCancelled(hist, tweens, first(d))
          /\ UNCHANGED <<clock, nextRaf, style>>

\* ------------------------------------------------------- the frame loop
\* The scheduler runs the callback c it was asked for; a callback runs on a
\* frame later than the one it was requested in.
step(c) ==
  LET id == c.id
      st == tweens[id]
      el == st.el
      queue == rafQueue \ {c}
  IN /\ c \in rafQueue
     /\ now > c.at
     /\ IF st.stop
        THEN /\ rafQueue' = queue
             /\ UNCHANGED <<clock, FX, tweens, nextRaf, style, hist>>
        ELSE LET elapsed == now - st.start
                 t == progress(elapsed, st.ms)
                 e == easing(st.easing, t)
                 sty == writeAll(style[el], tweens, FXget(FX, el), st, e, 1)
                 more == RLt(t, R(1))
                 called == ~more /\ st.onDone # "none"
                 seen == [hist[id] EXCEPT
                            !.lastT = t,
                            !.lastE = e,
                            !.lastElapsed = elapsed,
                            !.wrote = [k \in DOMAIN st.to |->
                                         interpolate(st.from[k], st.to[k], e)],
                            !.status = IF ~more /\ @ = "running"
                                       THEN "completed" ELSE @,
                            !.doneCalls = IF called THEN @ + 1 ELSE @,
                            !.lateWrite = @ \/ hist[id].status = "cancelled",
                            !.lateDone = @ \/ (called /\ hist[id].status = "cancelled")]
                 S == finish([Current EXCEPT !.rafQueue = queue,
                                             !.hist = [hist EXCEPT ![id] = seen]],
                             st, sty)
             IN /\ IF more
                   THEN /\ tweens' = [tweens EXCEPT ![id].raf = nextRaf]
                        /\ rafQueue' = requestAnimationFrame(queue, nextRaf, id, now)
                        /\ nextRaf' = nextRaf + 1
                        /\ style' = [style EXCEPT ![el] = sty]
                        /\ hist' = [hist EXCEPT ![id] = seen]
                        /\ UNCHANGED FX
                   ELSE /\ FX' = S.FX
                        /\ tweens' = S.tweens
                        /\ rafQueue' = S.rafQueue
                        /\ nextRaf' = S.nextRaf
                        /\ hist' = S.hist
                        /\ style' = [style EXCEPT ![el] = onDone(st.onDone, sty)]
                /\ UNCHANGED clock

\* time passes, up to MaxTime and for as long as a running tween has not
\* reached the end of its duration
Tick ==
  /\ IF clock < MaxTime THEN TRUE
     ELSE \E i \in DOMAIN tweens :
            /\ hist[i].status = "running"
            /\ clock < tweens[i].start + Max(TicksPerMs, tweens[i].ms)
  /\ clock' = clock + 1
  /\ UNCHANGED <<FX, tweens, rafQueue, nextRaf, style, hist>>

Next ==
  \/ \E d \in Handles, a \in ToArgs : fxTo(d, a[1], a[2], a[3]) /\ UNCHANGED outside
  \/ \E d \in Handles, a \in FadeArgs :
       fxFade(d, a[1], a[2], a[3]) /\ UNCHANGED outside
  \/ \E d \in Handles, a \in MoveArgs :
       fxMove(d, a[1], a[2], a[3], a[4]) /\ UNCHANGED outside
  \/ \E d \in Handles, a \in ScaleArgs :
       fxScale(d, a[1], a[2], a[3]) /\ UNCHANGED outside
  \/ \E d \in Handles, a \in RotateArgs :
       fxRotate(d, a[1], a[2], a[3]) /\ UNCHANGED outside
  \/ \E d \in Handles : fxStop(d) /\ UNCHANGED outside
  \/ \E c \in rafQueue : step(c) /\ UNCHANGED outside
  \/ Tick /\ UNCHANGED outside

Spec == Init /\ [][Next]_<<vars, outside>>

\* some requested callback is due: the enabling condition of a frame
frameDue == \E c \in rafQueue : now > c.at

\* The clock advances and the frame scheduler keeps running the callbacks that
\* are due: weak fairness of Tick and of the frames, the latter written out
\* with frameDue as its enabling condition.
LiveSpec ==
  /\ Spec
  /\ WF_vars(Tick)
  /\ ([]<>(~frameDue) \/ []<><<\E c \in rafQueue : step(c)>>_vars)

\* -------------------------------------------------------------- chaining
\* A caller of tweenElement that sequences two tweens through the completion
\* callback: onDone = () => tweenElement(el, ...ChainedArgs).  None of the
\* public helpers passes such a callback; this is tweenElement used as its
\* signature allows.
ThenArgs == {<< << <<"x", 1>> >>, 1, "linear" >>}

tweenThen(el, to, ms, ease) ==
  /\ CanBegin(ms)
  /\ Len(tweens) + 1 < MaxTweens
  /\ tweenElement(el, to, ms, ease, "chain", style[el])
  /\ UNCHANGED style

ChainNext ==
  \/ \E el \in Els, a \in ThenArgs : tweenThen(el, a[1], a[2], a[3]) /\ UNCHANGED outside
  \/ \E d \in Handles, a \in ScaleArgs :
       fxScale(d, a[1], a[2], a[3]) /\ UNCHANGED outside
  \/ \E d \in Handles : fxStop(d) /\ UNCHANGED outside
  \/ \E c \in rafQueue : step(c) /\ UNCHANGED outside
  \/ Tick /\ UNCHANGED outside

ChainSpec == Init /\ [][ChainNext]_<<vars, outside>>

\* ChainSpec with the clock advancing and due frames run, as in LiveSpec
ChainLiveSpec ==
  /\ ChainSpec
  /\ WF_vars(Tick)
  /\ ([]<>(~frameDue) \/ []<><<\E c \in rafQueue : step(c)>>_vars)

\* ------------------------------------------------- the calls, observed
\* The same helpers with what each call returns kept in lastCall: the handle it
\* was called on (d), the handle it returned (ret), whether the target had no
\* registry entry when the call was made (idle) and whether cancel raised an
\* error (threw); op is "stop" for stop() and "tween" for the five helpers that
\* begin a tween.  A frame or a tick forgets the call.
returned(op, d) ==
  [op |-> op, d |-> d, ret |-> d,
   idle |-> first(d) # NoEl /\ FXget(FX, first(d)) = NoState,
   threw |-> first(d) # NoEl /\ cancel(Current, first(d)).threw]

CallNext ==
  \/ \E d \in Handles, a \in ToArgs :
       fxTo(d, a[1], a[2], a[3])
         /\ lastCall' = returned("tween", d) /\ UNCHANGED beyondFx
  \/ \E d \in Handles, a \in CallFadeArgs :
       fxFade(d, a[1], a[2], a[3])
         /\ lastCall' = returned("tween", d) /\ UNCHANGED beyondFx
  \/ \E d \in Handles, a \in MoveArgs :
       fxMove(d, a[1], a[2], a[3], a[4])
         /\ lastCall' = returned("tween", d) /\ UNCHANGED beyondFx
  \/ \E d \in Handles, a \in ScaleArgs :
       fxScale(d, a[1], a[2], a[3])
         /\ lastCall' = returned("tween", d) /\ UNCHANGED beyondFx
  \/ \E d \in Handles, a \in RotateArgs :
       fxRotate(d, a[1], a[2], a[3])
         /\ lastCall' = returned("tween", d) /\ UNCHANGED beyondFx
  \/ \E d \in Handles : fxStop(d) /\ lastCall' = returned("stop", d) /\ UNCHANGED beyondFx
  \/ \E c \in rafQueue : step(c) /\ lastCall' = NoCall /\ UNCHANGED beyondFx
  \/ Tick /\ lastCall' = NoCall /\ UNCHANGED beyondFx

CallSpec == Init /\ [][CallNext]_<<vars, outside>>

\* ------------------------------------------------------------ the store
\* src/unnamed/part_001.  Texts (storage keys, stored items, string values) are
\* sequences of characters.  A value is [t: its type, v: its content]; an
\* object has one field, v = <<key, value>>.  JSON texts are those of
\* non-negative integers, true, false, null, strings without quote or
\* backslash, and one-field objects, written without white space as
\* JSON.stringify writes them.  setItem is taken not to throw.
Quote == "'"     \* stands for the double quote character
Digits == <<"0", "1", "2", "3", "4", "5", "6", "7", "8", "9">>
DigitSet == {Digits[i] : i \in 1..10}

Null == [t |-> "null", v |-> "null"]
Undefined == [t |-> "undefined", v |-> "undefined"]
Str(text) == [t |-> "string", v |-> text]
Num(n) == [t |-> "number", v |-> n]
Bool(b) == [t |-> "boolean", v |-> b]
Obj(key, value) == [t |-> "object", v |-> <<key, value>>]

RECURSIVE digitsOf(_)
digitsOf(n) ==
  IF n < 10 THEN <<Digits[n + 1]>>
  ELSE Append(digitsOf(n \div 10), Digits[(n % 10) + 1])

RECURSIVE numberOf(_)
numberOf(text) ==
  IF text = << >> THEN 0
  ELSE 10 * numberOf(SubSeq(text, 1, Len(text) - 1))
       + (CHOOSE i \in 0..9 : Digits[i + 1] = text[Len(text)])

RECURSIVE JSONstringify(_)
JSONstringify(value) ==
  CASE value.t = "number" -> digitsOf(value.v)
    [] value.t = "boolean" -> IF value.v THEN <<"t", "r", "u", "e">>
                              ELSE <<"f", "a", "l", "s", "e">>
    [] value.t = "null" -> <<"n", "u", "l", "l">>
    [] value.t = "string" -> <<Quote>> \o value.v \o <<Quote>>
    [] value.t = "object" ->
         <<"{", Quote>> \o value.v[1] \o <<Quote, ":">>
           \o JSONstringify(value.v[2]) \o <<"}">>

\* JSON.parse: [ok: the text is JSON, value: what it denotes]
SyntaxError == [ok |-> FALSE, value |-> Undefined]
Parsed(value) == [ok |-> TRUE, value |-> value]
plain(text) == \A i \in 1..Len(text) : text[i] \notin {Quote, "\\"}

RECURSIVE JSONparse(_)
JSONparse(text) ==
  LET n == Len(text)
  IN CASE text = <<"t", "r", "u", "e">> -> Parsed(Bool(TRUE))
       [] text = <<"f", "a", "l", "s", "e">> -> Parsed(Bool(FALSE))
       [] text = <<"n", "u", "l", "l">> -> Parsed(Null)
       [] /\ n >= 1
          /\ \A i \in 1..n : text[i] \in DigitSet
          /\ n > 1 => text[1] # "0" -> Parsed(Num(numberOf(text)))
       [] /\ n >= 2
          /\ text[1] = Quote
          /\ text[n] = Quote
          /\ plain(SubSeq(text, 2, n - 1)) -> Parsed(Str(SubSeq(text, 2, n - 1)))
       [] /\ n >= 6
          /\ text[1] = "{"
          /\ text[2] = Quote
          /\ text[n] = "}"
          /\ \E j \in 3..(n - 3) :
               /\ text[j] = Quote
               /\ text[j + 1] = ":"
               /\ \A i \in 3..(j - 1) : text[i] # Quote ->
            LET j == CHOOSE j \in 3..(n - 3) :
                       /\ text[j] = Quote
                       /\ text[j + 1] = ":"
                       /\ \A i \in 3..(j - 1) : text[i] # Quote
                inner == JSONparse(SubSeq(text, j + 2, n - 1))
            IN IF inner.ok /\ plain(SubSeq(text, 3, j - 1))
               THEN Parsed(Obj(SubSeq(text, 3, j - 1), inner.value))
               ELSE SyntaxError
       [] OTHER -> SyntaxError

\* the calls made on the stores: two stores over the same localStorage, one
\* without and one with a namespace
StoreNs == {<< >>, <<"a", ":">>}
StoreKeys == {<<"t">>, <<"a", ":", "t">>}
StoreValues ==
  {Str(<<"a", "b">>), Str(<<"1", "2">>), Str(<< >>), Str(<<"t", "r", "u", "e">>),
   Num(12), Bool(FALSE), Null, Obj(<<"i">>, Num(7))}
Fallbacks == {Undefined, Str(<<"x">>)}

\* Storage.getItem is the item or null: here, whether k has an item, and S[k]
setItem(S, k, item) == [x \in DOMAIN S \cup {k} |-> IF x = k THEN item ELSE S[x]]
removeItem(S, k) == [x \in DOMAIN S \ {k} |-> S[x]]
startsWith(k, ns) == Len(k) >= Len(ns) /\ SubSeq(k, 1, Len(ns)) = ns

keyOf(ns, k) == IF ns # << >> THEN ns \o k ELSE k

\* try { return JSON.parse(v) } catch { return v }
parsedOrRaw(v) == IF JSONparse(v).ok THEN JSONparse(v).value ELSE Str(v)

get(S, ns, key, fallback) ==
  IF keyOf(ns, key) \notin DOMAIN S
  THEN IF fallback \in {Undefined, Null} THEN Null ELSE fallback
  ELSE parsedOrRaw(S[keyOf(ns, key)])

set(S, ns, key, value) ==
  setItem(S, keyOf(ns, key),
          IF value.t = "string" THEN value.v ELSE JSONstringify(value))

rm(S, ns, key) == removeItem(S, keyOf(ns, key))

has(S, ns, key) == keyOf(ns, key) \in DOMAIN S

all(S, ns) ==
  LET mine == {k \in DOMAIN S : ns = << >> \/ startsWith(k, ns)}
  IN [short \in {SubSeq(k, Len(ns) + 1, Len(k)) : k \in mine} |->
        parsedOrRaw(S[ns \o short])]

clear(S, ns) ==
  IF ns = << >> THEN [k \in {} |-> << >>]
  ELSE [k \in {k \in DOMAIN S : ~startsWith(k, ns)} |-> S[k]]

fxVars == <<vars, lastCall>>

s_get(ns, key, fallback) ==
  /\ got' = [op |-> "get", key |-> keyOf(ns, key),
             value |-> get(storage, ns, key, fallback)]
  /\ UNCHANGED <<storage, put>>

s_set(ns, key, value) ==
  /\ storage' = set(storage, ns, key, value)
  /\ put' = setItem(put, keyOf(ns, key), value)
  /\ got' = << >>

s_rm(ns, key) ==
  /\ storage' = rm(storage, ns, key)
  /\ put' = removeItem(put, keyOf(ns, key))
  /\ got' = << >>

s_has(ns, key) ==
  /\ got' = [op |-> "has", key |-> keyOf(ns, key),
             value |-> Bool(has(storage, ns, key))]
  /\ UNCHANGED <<storage, put>>

s_all(ns) ==
  /\ got' = [op |-> "all", key |-> ns, value |-> all(storage, ns)]
  /\ UNCHANGED <<storage, put>>

s_clear(ns) ==
  /\ storage' = clear(storage, ns)
  /\ put' = clear(put, ns)
  /\ got' = << >>

StoreNext ==
  \/ \E ns \in StoreNs, key \in StoreKeys, fallback \in Fallbacks :
       s_get(ns, key, fallback) /\ UNCHANGED <<fxVars, netVars>>
  \/ \E ns \in StoreNs, key \in StoreKeys, value \in StoreValues :
       s_set(ns, key, value) /\ UNCHANGED <<fxVars, netVars>>
  \/ \E ns \in StoreNs, key \in StoreKeys : s_rm(ns, key) /\ UNCHANGED <<fxVars, netVars>>
  \/ \E ns \in StoreNs, key \in StoreKeys : s_has(ns, key) /\ UNCHANGED <<fxVars, netVars>>
  \/ \E ns \in StoreNs : s_all(ns) /\ UNCHANGED <<fxVars, netVars>>
  \/ \E ns \in StoreNs : s_clear(ns) /\ UNCHANGED <<fxVars, netVars>>

StoreSpec == Init /\ [][StoreNext]_<<fxVars, storeVars, netVars>>

\* ------------------------------------------------------- the net client
\* net of src/src/index.ts: one client, created as net() with no base, no
\* default query and the default timeout.  A request is run by the async
\* function run; each await of run is a point where other calls, timers and
\* settlements interleave.  An interceptor is a function the caller registered;
\* a call of it either returns (its promise fulfils) or throws (rejects).
\* Texts are sequences of characters, values are as for the store.
Interceptors == <<"f", "g">>     \* the functions registered, in this order
Path == <<"/", "p">>
NetArgs == {Undefined, Obj(<<"i">>, Num(7))}     \* a query, a body, or neither

\* String(v) of a query value
String(v) == IF v.t = "number" THEN digitsOf(v.v) ELSE v.v

\* qs(obj): "?k=v" for the one entry of obj, "" for no object or no entry
qs(obj) ==
  IF obj = Undefined \/ obj.v[2] \in {Undefined, Null} THEN << >>
  ELSE <<"?">> \o obj.v[1] \o <<"=">> \o String(obj.v[2])

\* join(base, path) with no base
join(base, path) == IF base = << >> THEN path ELSE base \o <<"/">> \o path

\* compose(path, method, body, extra, query); arg is what the caller passed.
\* The request carries the position of its run: pc the stage, idx the
\* interceptors of the stage already awaited, log what run has done so far,
\* aborted the controller's signal, caught the error run's catch received and
\* err the error run threw.
compose(path, method, body, query, arg) ==
  LET isJSON == body \notin {Undefined, Null} /\ body.t # "string"
  IN [method |-> method, arg |-> arg,
      url |-> join(<< >>, path) \o qs(query),
      body |-> IF body \in {Undefined, Null} THEN Undefined
               ELSE IF isJSON THEN Str(JSONstringify(body)) ELSE body,
      json |-> isJSON,
      pc |-> "use", idx |-> 0, log |-> << >>, aborted |-> FALSE,
      caught |-> "none", err |-> "none"]

truthy(v) == v \notin {Undefined, Null, Bool(FALSE), Num(0), Str(<< >>)}
instanceof(v, class) == v.t = class

\* the test of del: !(x) instanceof Blob is (!x) instanceof Blob, an instanceof
\* applied to the boolean !x
delTakesBody(queryOrBody) ==
  /\ truthy(queryOrBody)
  /\ queryOrBody.t = "object"
  /\ instanceof(Bool(~truthy(queryOrBody)), "Blob")
  /\ instanceof(Bool(~truthy(queryOrBody)), "FormData")

\* the client's mutable state as run sees it
Net == [reqs |-> reqs, pending |-> _pending, timers |-> timers]

logged(N, r, what, who) == [N EXCEPT !.reqs[r].log = Append(@, <<what, who>>)]

\* a finally that leaves the timer armed
finally_keepTimer(N, r) == [N EXCEPT !.pending = @ \ {r}]

\* finally { clearTimeout(timer); _pending.delete(req.controller); }
finally(N, r) == [N EXCEPT !.timers = @ \ {r}, !.pending = @ \ {r}]

\* catch (err) { for (const f of _trap) await f(err, req); throw err; } from
\* the trap-interceptor after the idx already awaited, up to the next await or
\* to the end of run; th holds the stages whose interceptor call throws
trapLoop(N, r, th) ==
  LET q == N.reqs[r]
  IN IF q.idx < Len(_trap)
     THEN LET f == _trap[q.idx + 1]
              M == logged(N, r, "trap", f)
          IN IF "trap" \in th
             THEN finally([M EXCEPT !.reqs[r].pc = "rejected",
                                    !.reqs[r].err = "trap"], r)
             ELSE [M EXCEPT !.reqs[r].pc = "trap", !.reqs[r].idx = q.idx + 1]
     ELSE finally([logged(N, r, "throw", q.err) EXCEPT !.reqs[r].pc = "rejected"], r)

\* for (const f of _after) await f(res, req); return new Reply(res);
afterLoop(N, r, th) ==
  LET q == N.reqs[r]
  IN IF q.idx < Len(_after)
     THEN LET f == _after[q.idx + 1]
              M == logged(N, r, "after", f)
          IN IF "after" \in th
             THEN trapLoop([M EXCEPT !.reqs[r].caught = "after",
                                     !.reqs[r].err = "after",
                                     !.reqs[r].idx = 0], r, th)
             ELSE [M EXCEPT !.reqs[r].pc = "after", !.reqs[r].idx = q.idx + 1]
     ELSE finally([logged(N, r, "reply", "") EXCEPT !.reqs[r].pc = "fulfilled"], r)

\* run that issues fetch without going through the use-interceptors
useLoop_fetchFirst(N, r, th) ==
  [logged(N, r, "fetch", "") EXCEPT
     !.pending = @ \cup {r},
     !.timers = IF _timeout > 0 THEN @ \cup {r} ELSE @,
     !.reqs[r].pc = "fetch",
     !.reqs[r].idx = 0]

\* for (const f of _use) await f(req); then _pending.add, the timer and fetch
useLoop(N, r, th) ==
  LET q == N.reqs[r]
  IN IF q.idx < Len(_use)
     THEN LET f == _use[q.idx + 1]
              M == logged(N, r, "use", f)
          IN IF "use" \in th
             THEN [M EXCEPT !.reqs[r].pc = "rejected", !.reqs[r].err = "use"]
             ELSE [M EXCEPT !.reqs[r].idx = q.idx + 1]
     ELSE [logged(N, r, "fetch", "") EXCEPT
             !.pending = @ \cup {r},
             !.timers = IF _timeout > 0 THEN @ \cup {r} ELSE @,
             !.reqs[r].pc = "fetch",
             !.reqs[r].idx = 0]

Throws == SUBSET {"use", "after", "trap"}
UseThrows == SUBSET {"use"}
Timeouts == {0, DefaultTimeout}

becomes(N) ==
  /\ reqs' = N.reqs
  /\ _pending' = N.pending
  /\ timers' = N.timers
  /\ UNCHANGED <<_timeout, _use, _after, _trap>>

\* run(req), up to its first await
run(req, th, max) ==
  /\ Len(reqs) < max
  /\ becomes(useLoop([Net EXCEPT !.reqs = Append(reqs, req)], Len(reqs) + 1, th))

api_get(query, th, max) == run(compose(Path, "GET", Undefined, query, query), th, max)

api_post(body, th, max) == run(compose(Path, "POST", body, Undefined, body), th, max)

api_del(queryOrBody, th, max) ==
  IF delTakesBody(queryOrBody)
  THEN run(compose(Path, "DELETE", queryOrBody, Undefined, queryOrBody), th, max)
  ELSE run(compose(Path, "DELETE", Undefined, queryOrBody, queryOrBody), th, max)

\* the promise of an awaited interceptor has fulfilled: run goes on
resume(r, th) ==
  /\ r \in DOMAIN reqs
  /\ reqs[r].pc \in {"use", "after", "trap"}
  /\ becomes(CASE reqs[r].pc = "use" -> useLoop(Net, r, th)
               [] reqs[r].pc = "after" -> afterLoop(Net, r, th)
               [] reqs[r].pc = "trap" -> trapLoop(Net, r, th))

\* fetch fulfils with a response
respond(r, th) ==
  /\ r \in DOMAIN reqs
  /\ reqs[r].pc = "fetch"
  /\ ~reqs[r].aborted
  /\ becomes(afterLoop(Net, r, th))

\* fetch rejects: the network failed, or the signal was aborted
fail(r, th) ==
  /\ r \in DOMAIN reqs
  /\ reqs[r].pc = "fetch"
  /\ LET err == IF reqs[r].aborted THEN "AbortError" ELSE "TypeError"
     IN becomes(trapLoop([Net EXCEPT !.reqs[r].caught = err, !.reqs[r].err = err],
                         r, th))

\* setTimeout(() => req.controller.abort(), _timeout) fires
timerFires(r) ==
  /\ r \in timers
  /\ timers' = timers \ {r}
  /\ reqs' = [reqs EXCEPT ![r].aborted = TRUE]
  /\ UNCHANGED <<_pending, _timeout, _use, _after, _trap>>

api_abort ==
  /\ reqs' = [r \in DOMAIN reqs |->
                IF r \in _pending THEN [reqs[r] EXCEPT !.aborted = TRUE] ELSE reqs[r]]
  /\ _pending' = {}
  /\ UNCHANGED <<timers, _timeout, _use, _after, _trap>>

\* use(fn), after(fn), trap(fn): the caller registers the functions of
\* Interceptors in their order, at most max of them on a chain
fresh(chain, max) == Len(chain) < max /\ Len(chain) < Len(Interceptors)

api_use(max) ==
  /\ fresh(_use, max)
  /\ _use' = Append(_use, Interceptors[Len(_use) + 1])
  /\ UNCHANGED <<reqs, _pending, timers, _timeout, _after, _trap>>

api_after(max) ==
  /\ fresh(_after, max)
  /\ _after' = Append(_after, Interceptors[Len(_after) + 1])
  /\ UNCHANGED <<reqs, _pending, timers, _timeout, _use, _trap>>

api_trap(max) ==
  /\ fresh(_trap, max)
  /\ _trap' = Append(_trap, Interceptors[Len(_trap) + 1])
  /\ UNCHANGED <<reqs, _pending, timers, _timeout, _use, _after>>

api_timeout(ms) ==
  /\ _timeout' = ms
  /\ UNCHANGED <<reqs, _pending, timers, _use, _after, _trap>>

notNet == <<fxVars, storeVars>>

\* the page of the net specifications has one element, shown
NetInit == Init /\ \A el \in Els : style[el].display = ""

\* requests of every method and argument, with no interceptor registered
ComposeNext ==
  \/ \E a \in NetArgs : api_get(a, {}, MaxRequests) /\ UNCHANGED notNet
  \/ \E a \in NetArgs : api_post(a, {}, MaxRequests) /\ UNCHANGED notNet
  \/ \E a \in NetArgs : api_del(a, {}, MaxRequests) /\ UNCHANGED notNet
  \/ \E r \in DOMAIN reqs : respond(r, {}) /\ UNCHANGED notNet
  \/ \E r \in DOMAIN reqs : fail(r, {}) /\ UNCHANGED notNet

ComposeSpec == NetInit /\ [][ComposeNext]_<<notNet, netVars>>

\* the interceptor pipeline: interceptors registered at any time, each call of
\* one either returning or throwing
PipeNext ==
  \/ \E th \in Throws : api_get(Undefined, th, MaxPipeRequests) /\ UNCHANGED notNet
  \/ \E r \in DOMAIN reqs, th \in Throws : resume(r, th) /\ UNCHANGED notNet
  \/ \E r \in DOMAIN reqs, th \in Throws : respond(r, th) /\ UNCHANGED notNet
  \/ \E r \in DOMAIN reqs, th \in Throws : fail(r, th) /\ UNCHANGED notNet
  \/ api_use(Len(Interceptors)) /\ UNCHANGED notNet
  \/ api_after(Len(Interceptors)) /\ UNCHANGED notNet
  \/ api_trap(Len(Interceptors)) /\ UNCHANGED notNet

PipeSpec == NetInit /\ [][PipeNext]_<<notNet, netVars>>

\* requests in flight together, with timers, abort() and timeout(ms); one
\* interceptor at most on each chain, and only a use-interceptor throws
NetNext ==
  \/ \E th \in UseThrows : api_get(Undefined, th, MaxRequests) /\ UNCHANGED notNet
  \/ \E r \in DOMAIN reqs, th \in UseThrows : resume(r, th) /\ UNCHANGED notNet
  \/ \E r \in DOMAIN reqs : respond(r, {}) /\ UNCHANGED notNet
  \/ \E r \in DOMAIN reqs : fail(r, {}) /\ UNCHANGED notNet
  \/ \E r \in timers : timerFires(r) /\ UNCHANGED notNet
  \/ api_abort /\ UNCHANGED notNet
  \/ api_use(1) /\ UNCHANGED notNet
  \/ api_after(1) /\ UNCHANGED notNet
  \/ api_trap(1) /\ UNCHANGED notNet
  \/ \E ms \in Timeouts : api_timeout(ms) /\ UNCHANGED notNet

NetSpec == NetInit /\ [][NetNext]_<<notNet, netVars>>

\* ============================================================ properties
Ids == DOMAIN tweens

\* the scheduled callbacks that can still write to el
liveCallbacks(el) == {c \in rafQueue : tweens[c.id].el = el /\ ~tweens[c.id].stop}

\* the states of el that are neither stopped nor finished
liveStates(el) ==
  {i \in Ids : tweens[i].el = el /\ ~tweens[i].stop /\ hist[i].status # "completed"}

\* C1: once a tween has been cancelled (by stop or by a new tween on its
\* target), no frame of it writes to the target and its completion callback is
\* not called.
C1_CancelledTweenIsSilent ==
  \A i \in Ids : ~hist[i].lateWrite /\ ~hist[i].lateDone

\* a tween was superseded after its first frame, and its successor has since
\* run a frame of its own
C1_Witness ==
  \E i, j \in Ids :
    /\ i < j
    /\ tweens[i].el = tweens[j].el
    /\ hist[i].status = "cancelled"
    /\ hist[i].lastElapsed >= 0
    /\ hist[j].lastElapsed >= 0

\* C2: a target has at most one state that is neither stopped nor finished and
\* at most one scheduled callback that can still write to it, and that callback
\* is the one the state in the registry holds.
C2_OneLoopPerTarget ==
  \A el \in Els :
    /\ Cardinality(liveStates(el)) <= 1
    /\ Cardinality(liveCallbacks(el)) <= 1
    /\ \A c \in liveCallbacks(el) :
         FXget(FX, el) = c.id /\ tweens[c.id].raf = c.h

\* a second tween owns the target with its callback scheduled, the first one
\* having been stopped while its own callback was still scheduled
C2_Witness ==
  \E i, j \in Ids :
    /\ i < j
    /\ tweens[i].stop
    /\ hist[i].status = "cancelled"
    /\ FXget(FX, tweens[i].el) = j
    /\ \E c \in rafQueue : c.id = j /\ c.h = tweens[j].raf

\* C8: the registry holds an entry for a target exactly when a tween on that
\* target is running (begun, not completed, not cancelled), and the entry is
\* that tween; an entry is replaced by another only with its state stopped.
C8_RegistryIffRunning ==
  /\ [](\A el \in Els :
          /\ FXget(FX, el) # NoState <=>
               \E i \in Ids : tweens[i].el = el /\ hist[i].status = "running"
          /\ FXget(FX, el) # NoState =>
               /\ tweens[FXget(FX, el)].el = el
               /\ hist[FXget(FX, el)].status = "running")
  /\ [][\A el \in Els :
          (FXget(FX, el) # NoState /\ FXget(FX', el) # FXget(FX, el)) =>
            /\ tweens'[FXget(FX, el)].stop \/ hist'[FXget(FX, el)].status = "completed"
            /\ \A c \in rafQueue' : c.id # FXget(FX, el)]_vars

\* the registry is empty again after one tween completed and another was
\* cancelled
C8_Witness ==
  /\ \A el \in Els : FXget(FX, el) = NoState
  /\ \E i, j \in Ids : hist[i].status = "completed" /\ hist[j].status = "cancelled"

\* a frame of tween i runs in this step
frameOf(i) == hist'[i].lastElapsed # hist[i].lastElapsed

\* the value the last frame of tween i computed for channel k
interpolated(i, k) == interpolate(tweens[i].from[k], tweens[i].to[k], hist[i].lastE)

\* C3: a frame of a tween that animates a transform channel leaves every
\* transform component outside its channel set at the value last written.
C3_OtherComponentsKept ==
  [][\A i \in Ids :
       (frameOf(i) /\ DOMAIN tweens[i].to \cap TransformKeys # {}) =>
         \A k \in TransformKeys \ DOMAIN tweens[i].to :
           style'[tweens[i].el].transform[k] = style[tweens[i].el].transform[k]]_vars

\* C4: after a frame of a running tween every transform channel of its channel
\* set stands in the composed transform at from + (to - from) * e.
C4_ComposedIsInterpolated ==
  \A i \in Ids :
    (hist[i].status = "running" /\ hist[i].lastElapsed >= 0) =>
      \A k \in DOMAIN tweens[i].to \cap TransformKeys :
        style[tweens[i].el].transform[k] = interpolated(i, k)

\* C5: the frame on which t reaches 1 writes exactly to[k] for every channel.
C5_FinalFrameWritesTo ==
  \A i \in Ids :
    (hist[i].lastElapsed >= 0 /\ hist[i].lastT = R(1)) =>
      \A k \in DOMAIN tweens[i].to : hist[i].wrote[k] = tweens[i].to[k]

\* C6: a fade toward transparent sets display to "none" only when the opacity
\* it last wrote is exactly 0.
C6_HiddenOnlyAtZero ==
  \A i \in Ids :
    (tweens[i].onDone = "fadeOut" /\ hist[i].doneCalls > 0) =>
      hist[i].wrote["opacity"] = R(0)

\* C7: while a fade toward visible is running, from the call that begins it and
\* so at each of its opacity writes, the target's display is not "none".
C7_ShownBeforeFirstWrite ==
  \A i \in Ids :
    (tweens[i].onDone = "fadeIn" /\ hist[i].status = "running") =>
      style[tweens[i].el].display # "none"

\* a fade toward visible, begun on a target whose display was "none", has made
\* an interpolated opacity write
C7_Witness ==
  \E i \in Ids :
    /\ tweens[i].onDone = "fadeIn"
    /\ hist[i].displayAtCall = "none"
    /\ hist[i].status = "running"
    /\ hist[i].lastElapsed >= 0
    /\ RLt(hist[i].lastT, R(1))

\* the floor Math.max(1, ms) of a requested duration, in ticks
floored(ms) == Max(TicksPerMs, ms)

\* C9 as stated, for requested durations d > 0: t is at most 1, below 1 on a
\* frame before d has elapsed and 1 on a frame at or after d has elapsed.
C9_ProgressAgainstRequested ==
  \A i \in Ids :
    (tweens[i].ms > 0 /\ hist[i].lastElapsed >= 0) =>
      /\ RLe(hist[i].lastT, R(1))
      /\ hist[i].lastElapsed < tweens[i].ms => RLt(hist[i].lastT, R(1))
      /\ hist[i].lastElapsed >= tweens[i].ms => hist[i].lastT = R(1)

\* C9 amended: on successive frames of a tween t never decreases and never
\* exceeds 1; it is below 1 on every frame before max(1, d) has elapsed and 1 on
\* the first frame at or after max(1, d) has elapsed.
C9_ProgressAgainstFloored ==
  /\ [](\A i \in Ids :
          hist[i].lastElapsed >= 0 =>
            /\ RLe(hist[i].lastT, R(1))
            /\ hist[i].lastElapsed < floored(tweens[i].ms) => RLt(hist[i].lastT, R(1))
            /\ hist[i].lastElapsed >= floored(tweens[i].ms) => hist[i].lastT = R(1))
  /\ [][\A i \in Ids :
          /\ RLe(hist[i].lastT, hist'[i].lastT)
          /\ hist[i].lastElapsed <= hist'[i].lastElapsed
          /\ (frameOf(i) /\ hist[i].lastElapsed >= 0) => RLt(hist[i].lastT, R(1))]_vars

\* a tween asked to last less than a millisecond ran a frame after that
\* duration had elapsed and is still below 1; another tween ran two frames
C9_Witness ==
  /\ \E i \in Ids :
       /\ tweens[i].ms > 0
       /\ tweens[i].ms < TicksPerMs
       /\ hist[i].lastElapsed >= tweens[i].ms
       /\ RLt(hist[i].lastT, R(1))
  /\ \E i \in Ids :
       /\ hist[i].lastT = R(1)
       /\ hist[i].lastElapsed > floored(tweens[i].ms)

Running(i) == i \in Ids /\ hist[i].status = "running"

\* C10: every tween ends, completed unless it was cancelled (again and again
\* no tween is running, and a tween that has ended stays ended); a completed tween
\* saw a frame with t >= 1, has no frame scheduled and no registry entry, and
\* its completion callback, if it has one, was called exactly once.
C10_EveryTweenCompletes ==
  /\ []<>(\A i \in Ids : ~Running(i))
  /\ [][\A i \in Ids : ~Running(i) => ~Running(i)']_vars
  /\ [](\A i \in Ids :
          hist[i].status = "completed" =>
            /\ RLe(R(1), hist[i].lastT)
            /\ \A c \in rafQueue : c.id # i
            /\ FXget(FX, tweens[i].el) # i
            /\ hist[i].doneCalls = IF tweens[i].onDone = "none" THEN 0 ELSE 1)
  /\ [](\A i \in Ids : hist[i].status # "completed" => hist[i].doneCalls = 0)

\* a fade has completed, on a frame later than its duration, and its callback
\* ran once
C10_Witness ==
  \E i \in Ids :
    /\ hist[i].status = "completed"
    /\ tweens[i].onDone # "none"
    /\ hist[i].doneCalls = 1
    /\ hist[i].lastElapsed > floored(tweens[i].ms)

\* a stop() call on a target with no registry entry has just returned
idleStop == lastCall.op = "stop" /\ lastCall.idle

\* C11: stop() on a target with no registry entry raises no error and changes
\* neither the registry, the scheduled frame callbacks, the tween states nor
\* any style; stop() is idempotent: of two consecutive stop() calls on the same
\* handle the second changes nothing, and cancelling twice is cancelling once.
C11_StopWithoutEntryIsNoOp ==
  /\ [](idleStop => ~lastCall.threw)
  /\ [](\A el \in Els :
          /\ FXget(FX, el) = NoState => cancel(Current, el) = Current
          /\ cancel(cancel(Current, el), el) = cancel(Current, el))
  /\ [][idleStop' => UNCHANGED vars]_<<vars, outside>>
  /\ [][(lastCall.op = "stop" /\ lastCall'.op = "stop" /\ lastCall'.d = lastCall.d)
          => UNCHANGED vars]_<<vars, outside>>

\* stop() has just returned for the second time in a row on a target whose
\* tween the first stop() cancelled after a frame of it had written
C11_Witness ==
  /\ idleStop
  /\ \E i \in Ids :
       /\ tweens[i].el = first(lastCall.d)
       /\ hist[i].status = "cancelled"
       /\ hist[i].lastElapsed >= 0
       /\ \A j \in Ids : j <= i

\* a helper call on a handle whose selection is empty has just returned
emptyCall == lastCall.op # "none" /\ lastCall.d.first = NoEl

\* some helper is called on handle d in this step
helperCalled(d) ==
  \/ \E a \in ToArgs : fxTo(d, a[1], a[2], a[3])
  \/ \E a \in FadeArgs : fxFade(d, a[1], a[2], a[3])
  \/ \E a \in MoveArgs : fxMove(d, a[1], a[2], a[3], a[4])
  \/ \E a \in ScaleArgs : fxScale(d, a[1], a[2], a[3])
  \/ \E a \in RotateArgs : fxRotate(d, a[1], a[2], a[3])
  \/ fxStop(d)

\* C12: each of to, fade, move, scale, rotate and stop, called on a handle whose
\* selection is empty, raises no error, returns the handle it was called on and
\* changes nothing: no registry entry, no frame callback, no tween state, no
\* style write.
C12_EmptySelectionIsNoOp ==
  /\ [](emptyCall => lastCall.ret = lastCall.d /\ ~lastCall.threw)
  /\ [][emptyCall' => UNCHANGED vars]_<<vars, outside>>
  /\ [][\A d \in Handles :
          (d.first = NoEl /\ helperCalled(d)) => UNCHANGED vars]_<<vars, outside>>

\* a tween helper has just returned from a call on an empty selection while a
\* tween begun earlier on an element is between two of its frames
C12_Witness ==
  /\ emptyCall
  /\ lastCall.op = "tween"
  /\ \E i \in Ids :
       /\ hist[i].status = "running"
       /\ hist[i].lastElapsed >= 0
       /\ FXget(FX, tweens[i].el) = i
       /\ \E c \in rafQueue : c.id = i

\* the same type and the same content
same(v, w) == v.t = w.t /\ v.v = w.v

\* C13: after s.set(k, v), for a string or JSON-serializable v, and until the
\* item is removed or set again, s.get(k) returns a value of v's type and
\* content and s.has(k) is true.
C13_StoreRoundTrip ==
  \A ns \in StoreNs, key \in StoreKeys :
    keyOf(ns, key) \in DOMAIN put =>
      /\ same(get(storage, ns, key, Undefined), put[keyOf(ns, key)])
      /\ has(storage, ns, key)

Reqs == DOMAIN reqs

\* the interceptors of one stage that run has called for request r, in the
\* order of the calls
ran(r, stage) ==
  LET of == SelectSeq(reqs[r].log, LAMBDA e : e[1] = stage)
  IN [i \in 1..Len(of) |-> of[i][2]]

prefix(a, b) == Len(a) <= Len(b) /\ a = SubSeq(b, 1, Len(a))

\* position in r's log of the event what, 0 if it has not happened
when(r, what) ==
  IF \E i \in 1..Len(reqs[r].log) : reqs[r].log[i][1] = what
  THEN CHOOSE i \in 1..Len(reqs[r].log) : reqs[r].log[i][1] = what
  ELSE 0

\* the event what is logged for r in this step
happens(r, what) == r \in DOMAIN reqs' /\ when(r, what)' # 0 /\ (r \in Reqs => when(r, what) = 0)

\* at most one interceptor of each stage is called for r in this step
oneAtATime(r) ==
  \A stage \in {"use", "after", "trap"} :
    Len(ran(r, stage)') <= (IF r \in Reqs THEN Len(ran(r, stage)) ELSE 0) + 1

\* what holds of the pipeline whether or not interceptors throw: the calls of a
\* stage follow the registration order, one per turn; every registered
\* use-interceptor has been called and awaited when fetch is issued; every
\* registered after-interceptor when the Reply is returned
PipelineOrder ==
  /\ [](\A r \in Reqs :
          /\ prefix(ran(r, "use"), _use)
          /\ prefix(ran(r, "after"), _after)
          /\ prefix(ran(r, "trap"), _trap)
          /\ \A i \in 1..Len(reqs[r].log) :
               /\ reqs[r].log[i][1] = "use" => when(r, "fetch") \in {0} \cup (i + 1)..Len(reqs[r].log)
               /\ reqs[r].log[i][1] = "after" =>
                    /\ when(r, "fetch") \in 1..(i - 1)
                    /\ when(r, "reply") \in {0} \cup (i + 1)..Len(reqs[r].log)
               /\ reqs[r].log[i][1] = "trap" =>
                    /\ when(r, "fetch") \in 1..(i - 1)
                    /\ when(r, "throw") \in {0} \cup (i + 1)..Len(reqs[r].log)
          /\ reqs[r].pc = "fulfilled" <=> when(r, "reply") # 0)
  /\ [][\A r \in DOMAIN reqs' :
          /\ oneAtATime(r)
          /\ happens(r, "fetch") => ran(r, "use")' = _use
          /\ happens(r, "reply") => ran(r, "after")' = _after]_<<notNet, netVars>>

\* fetch failed for r and run has ended
fetchFailed(r) ==
  reqs[r].pc = "rejected" /\ reqs[r].caught \in {"TypeError", "AbortError"}

\* C14 as stated: the pipeline is in order, and a request whose fetch failed
\* ends with every registered trap-interceptor called and the error of fetch
\* thrown to the caller.
C14_TrapsThenOriginalError ==
  /\ PipelineOrder
  /\ [](\A r \in Reqs :
          fetchFailed(r) => when(r, "throw") # 0 /\ reqs[r].err = reqs[r].caught)
  /\ [][\A r \in DOMAIN reqs' :
          happens(r, "throw") => ran(r, "trap")' = _trap]_<<notNet, netVars>>

\* C14 amended: the pipeline is in order; when fetch fails, or an
\* after-interceptor throws, the trap-interceptors are called in registration
\* order, and either all of them return and the error caught is thrown to the
\* caller, or one of them throws, which ends the chain and gives the caller
\* that error in place of the one caught.
C14_PipelineInOrder ==
  /\ PipelineOrder
  /\ [](\A r \in Reqs :
          (reqs[r].pc = "rejected" /\ reqs[r].caught # "none") =>
            \/ when(r, "throw") # 0 /\ reqs[r].err = reqs[r].caught
            \/ /\ when(r, "throw") = 0
               /\ reqs[r].err = "trap"
               /\ reqs[r].log[Len(reqs[r].log)][1] = "trap")
  /\ [][\A r \in DOMAIN reqs' :
          happens(r, "throw") => ran(r, "trap")' = _trap]_<<notNet, netVars>>

\* a request went through two use-interceptors, its fetch failed, both
\* trap-interceptors were called and the error of fetch was thrown
C14_Witness ==
  \E r \in Reqs :
    /\ fetchFailed(r)
    /\ reqs[r].err = reqs[r].caught
    /\ reqs[r].log = <<<<"use", "f">>, <<"use", "g">>, <<"fetch", "">>,
                       <<"trap", "f">>, <<"trap", "g">>, <<"throw", "TypeError">>>>

\* run has ended for r: its promise is settled
settled(r) == reqs[r].pc \in {"fulfilled", "rejected"}

\* r is past its use-interceptors and not settled: fetch is awaited, or an
\* after- or trap-interceptor
underway(r) == reqs[r].pc \in {"fetch", "after", "trap"}

\* C15: a controller is in the pending set, and a timer is armed, only for a
\* request past its use-interceptors and not yet settled; a settled request has
\* neither, so with no request in flight the set is empty and no timer is
\* armed; a controller leaves the set before its request settles only by
\* abort(), which aborts every controller in the set and empties it.
C15_PendingWhileUnderway ==
  /\ [](\A r \in Reqs :
          /\ r \in _pending => underway(r)
          /\ r \in timers => underway(r)
          /\ settled(r) => r \notin _pending /\ r \notin timers
          /\ (underway(r) /\ r \notin _pending) => reqs[r].aborted)
  /\ []((\A r \in Reqs : settled(r)) => _pending = {} /\ timers = {})
  /\ [][(\E r \in _pending \ _pending' : ~settled(r)') =>
          /\ _pending' = {}
          /\ \A r \in _pending : reqs'[r].aborted]_<<notNet, netVars>>

\* two requests were in flight together, one with a timer and one without;
\* abort() aborted both and both have settled with the abort error
C15_Witness ==
  /\ _pending = {}
  /\ timers = {}
  /\ Len(reqs) = MaxRequests
  /\ \A r \in Reqs : settled(r) /\ reqs[r].err = "AbortError"
  /\ \E r \in Reqs : reqs[r].log[1][1] = "use"

\* C16: del(path, arg) with arg a plain object issues DELETE with arg as the
\* JSON body and nothing of arg in the URL; with arg absent there is no body.
C16_DelObjectIsBody ==
  \A r \in Reqs :
    reqs[r].method = "DELETE" =>
      IF reqs[r].arg.t = "object"
      THEN /\ same(reqs[r].body, Str(JSONstringify(reqs[r].arg)))
           /\ reqs[r].url = Path
      ELSE same(reqs[r].body, Undefined)

\* tween i, begun with a chaining completion callback, completes in this step
chainCompletes(i) ==
  /\ tweens[i].onDone = "chain"
  /\ hist[i].status = "running"
  /\ hist'[i].status = "completed"

\* tween j is one that a chaining completion callback began
chained(j) == tweens[j].onDone = "none" /\ tweens[j].keys = Keys(ChainedArgs[1])

\* C17: when a tween completes, the tween its completion callback begins on
\* the same target is in the registry at the end of that frame, not stopped,
\* with its first frame scheduled; the registry holds a target exactly while a
\* tween on it is running; no frame cancels a tween; and every tween,
\* the chained one included, ends: it completes unless a later call cancels it.
C17_ChainedTweenRuns ==
  /\ [][\A i \in Ids :
          chainCompletes(i) =>
            LET j == Len(tweens) + 1
            IN /\ DOMAIN tweens' = 1..j
               /\ tweens'[j].el = tweens[i].el
               /\ FXget(FX', tweens[i].el) = j
               /\ ~tweens'[j].stop
               /\ hist'[j].status = "running"
               /\ hist'[i].doneCalls = 1
               /\ \E c \in rafQueue' : c.id = j /\ c.h = tweens'[j].raf]_vars
  /\ [](\A el \in Els :
          FXget(FX, el) # NoState <=>
            \E i \in Ids : tweens[i].el = el /\ hist[i].status = "running")
  /\ [][\A j \in Ids :
          (hist[j].status = "running" /\ hist'[j].status = "cancelled") =>
            \A i \in Ids : ~frameOf(i)]_vars
  /\ []<>(\A i \in Ids : ~Running(i))
  /\ [][\A i \in Ids : hist[i].status # "running" =>
                          hist'[i].status = hist[i].status]_vars

\* a tween completed a frame after its duration had elapsed, and the tween its
\* completion callback began has run its frames and completed too
C17_Witness ==
  \E i, j \in Ids :
    /\ j = i + 1
    /\ tweens[i].onDone = "chain"
    /\ hist[i].status = "completed"
    /\ hist[i].lastElapsed > floored(tweens[i].ms)
    /\ chained(j)
    /\ tweens[j].start = tweens[i].start + hist[i].lastElapsed
    /\ hist[j].status = "completed"
    /\ FXget(FX, tweens[j].el) = NoState

isFade(i) == tweens[i].onDone \in {"fadeIn", "fadeOut"}

\* the status of tween i goes from running to what in this step
ends(i, what) == hist[i].status = "running" /\ hist'[i].status = what

\* C18: will-change is "opacity" from the call of fade and for as long as the
\* fade is running; the frame that completes a fade leaves will-change "";
\* a step that cancels a fade (stop(), or a tween that supersedes it) leaves
\* will-change "opacity", and after stop() the target has no registry entry;
\* will-change goes from "opacity" to "" only in a step that completes a fade.
C18_HintClearedOnlyOnCompletion ==
  /\ [](\A i \in Ids :
          (isFade(i) /\ hist[i].status = "running") =>
            style[tweens[i].el].willChange = "opacity")
  /\ [][\A i \in Ids :
          /\ (isFade(i) /\ ends(i, "completed")) =>
               style'[tweens[i].el].willChange = ""
          /\ (isFade(i) /\ ends(i, "cancelled")) =>
               /\ style'[tweens[i].el].willChange = "opacity"
               /\ FXget(FX', tweens[i].el) # i
               /\ Len(tweens') = Len(tweens) => FXget(FX', tweens[i].el) = NoState]_vars
  /\ [][\A el \in Els :
          (style[el].willChange = "opacity" /\ style'[el].willChange = "") =>
            \E i \in Ids : isFade(i) /\ tweens[i].el = el /\ ends(i, "completed")]_vars

\* a fade was superseded by a tween that is not a fade; that tween has
\* completed, nothing is scheduled, the target has no registry entry, and
\* will-change is still "opacity"
C18_Witness ==
  \E i, j \in Ids :
    /\ i < j
    /\ isFade(i)
    /\ hist[i].status = "cancelled"
    /\ ~isFade(j)
    /\ tweens[j].el = tweens[i].el
    /\ hist[j].status = "completed"
    /\ FXget(FX, tweens[i].el) = NoState
    /\ rafQueue = {}
    /\ style[tweens[i].el].willChange = "opacity"

====
